---- MODULE Spec2Model ----
(***************************************************************************)
(* PromptLab: the in-memory storage (backend/app/storage.py), the request  *)
(* models (backend/app/models.py) and the prompt / collection handlers     *)
(* (backend/app/api.py), as a state machine.                               *)
(*                                                                         *)
(* Text is a sequence of code points (32 is the space, 97 is "a").  An     *)
(* Optional[str] is a set with at most one element: None is {} and the     *)
(* string s is {s}.  A Python dict is a sequence of (key, val) entries in  *)
(* insertion order.                                                        *)
(***************************************************************************)
EXTENDS Integers, Sequences, FiniteSets, TLC

VARIABLES prompts, collections, clock, nPrompts, nCollections, last,
          threads, moved

vars == <<prompts, collections, clock, nPrompts, nCollections, last,
          threads, moved>>

\* The requests in progress in the worker threads, and the record of the
\* prompts that left a collection: both stay as they are while the handlers
\* are called one at a time.
hist == <<threads, moved>>

(* ------------------------------ bounds -------------------------------- *)

\* Prompts created in one run.
MaxPrompts == 2
\* Collections created in one run of Spec.
MaxCollections == 1
\* Collections created in one run of SpecCascade.
MaxCascadeCollections == 2
\* Largest value the clock reaches.
MaxClock == 1
\* Fields one PATCH body supplies.
MaxPatchFields == 1
\* Prompts created in one run of SpecValidation.
MaxValidationPrompts == 1
\* Worker threads that run handlers at the same time.
MaxThreads == 2
\* Prompts stored before the worker threads start.
MaxSetupPrompts == 1

(* ------------------------- Optional values ---------------------------- *)

None == {}

Some(s) == {s}

Val(o) == CHOOSE x \in o : TRUE

\* Python truthiness of an Optional[str]: None and "" are falsy.
Truthy(o) == o # None /\ Val(o) # <<>>

(* ------------------------------- text --------------------------------- *)

Empty == <<>>

Blank == <<32>>

TextA == <<97>>

TextB == <<98>>

\* str.isspace for one (ASCII) character.
IsSpace(c) == c \in {9, 10, 11, 12, 13, 32}

RECURSIVE LStrip(_)
LStrip(s) == IF s = <<>> THEN s
             ELSE IF IsSpace(Head(s)) THEN LStrip(Tail(s)) ELSE s

RECURSIVE RStrip(_)
RStrip(s) == IF s = <<>> THEN s
             ELSE IF IsSpace(s[Len(s)]) THEN RStrip(SubSeq(s, 1, Len(s) - 1)) ELSE s

\* str.strip()
Strip(s) == RStrip(LStrip(s))

(* --------------------------- models.py -------------------------------- *)

TitleMaxLength == 200

DescriptionMaxLength == 500

NameMaxLength == 100

\* generate_id: the text of a fresh UUID.  The k-th prompt id is "p<k>",
\* the k-th collection id is "c<k>": non-blank and pairwise distinct.
PromptId(k) == <<112, 48 + k>>

CollectionId(k) == <<99, 48 + k>>

\* A length check that excludes the maximum itself.
RequiredStrExclusiveMax(o, minLen, maxLen) ==
    /\ o # None
    /\ Len(Val(o)) >= minLen
    /\ (maxLen >= 0 => Len(Val(o)) < maxLen)

\* Field(..., min_length, max_length) on a required str.
RequiredStr(o, minLen, maxLen) ==
    /\ o # None
    /\ Len(Val(o)) >= minLen
    /\ (maxLen >= 0 => Len(Val(o)) <= maxLen)

\* Field(None, min_length, max_length) on an Optional[str].
OptionalStr(o, minLen, maxLen) ==
    o = None \/ RequiredStr(o, minLen, maxLen)

\* PromptBase (PromptCreate, PromptUpdate): the field constraints.
PromptBaseValid(d) ==
    /\ RequiredStr(d.title, 1, TitleMaxLength)
    /\ RequiredStr(d.content, 1, -1)
    /\ OptionalStr(d.description, 0, DescriptionMaxLength)

\* CollectionBase (CollectionCreate): the field constraints.
CollectionBaseValid(d) ==
    /\ RequiredStr(d.name, 1, NameMaxLength)
    /\ OptionalStr(d.description, 0, DescriptionMaxLength)

\* A validator that tests v == "" instead of not v.strip().
CheckEmptyStringOnly(v) == IF v = Some(<<>>) THEN None ELSE v

\* PromptUpdateOptional.check_empty_values: a before-validator on every
\* supplied field.
check_empty_values(v) ==
    IF v # None /\ Strip(Val(v)) = <<>> THEN None ELSE v

PatchFields == {"title", "content", "description", "collection_id"}

\* PromptUpdateOptional(**json): the supplied fields pass through
\* check_empty_values, the others keep their default None; fields_set is
\* pydantic's model_fields_set.
PromptUpdateOptional(raw) ==
    [fields_set    |-> raw.fields_set,
     title         |-> IF "title" \in raw.fields_set
                       THEN check_empty_values(raw.title) ELSE None,
     content       |-> IF "content" \in raw.fields_set
                       THEN check_empty_values(raw.content) ELSE None,
     description   |-> IF "description" \in raw.fields_set
                       THEN check_empty_values(raw.description) ELSE None,
     collection_id |-> IF "collection_id" \in raw.fields_set
                       THEN check_empty_values(raw.collection_id) ELSE None]

\* PromptUpdateOptional: the field constraints, on the normalised values.
PromptUpdateOptionalValid(d) ==
    /\ OptionalStr(d.title, 1, TitleMaxLength)
    /\ OptionalStr(d.content, 1, -1)
    /\ OptionalStr(d.description, 0, DescriptionMaxLength)

\* Prompt(...): the stored entity.
Prompt(id, title, content, description, collection_id, created_at, updated_at) ==
    [id |-> id, title |-> title, content |-> content,
     description |-> description, collection_id |-> collection_id,
     created_at |-> created_at, updated_at |-> updated_at]

\* Collection(...): the stored entity.
Collection(id, name, description, created_at) ==
    [id |-> id, name |-> name, description |-> description,
     created_at |-> created_at]

(* ------------------------ Python dict, in order ----------------------- *)

DictHas(d, k) == \E i \in 1..Len(d) : d[i].key = k

\* dict.get(k): None when absent.
DictGet(d, k) == {d[i].val : i \in {j \in 1..Len(d) : d[j].key = k}}

\* d[k] = v: an existing key keeps its position, a new key goes last.
DictSet(d, k, v) ==
    IF DictHas(d, k)
    THEN [i \in 1..Len(d) |-> IF d[i].key = k THEN [key |-> k, val |-> v] ELSE d[i]]
    ELSE Append(d, [key |-> k, val |-> v])

DictDelTest(e, k) == e.key # k

\* del d[k]
DictDel(d, k) == SelectSeq(d, LAMBDA e : DictDelTest(e, k))

\* list(d.values())
DictValues(d) == [i \in 1..Len(d) |-> d[i].val]

DictKeys(d) == {d[i].key : i \in 1..Len(d)}

(* ---------------------------- storage.py ------------------------------ *)

\* Storage.create_prompt: self._prompts[prompt.id] = prompt
Storage_create_prompt(ps, prompt) == DictSet(ps, prompt.id, prompt)

\* Storage.get_prompt: self._prompts.get(prompt_id)
Storage_get_prompt(ps, prompt_id) == DictGet(ps, prompt_id)

\* Storage.get_all_prompts: list(self._prompts.values())
Storage_get_all_prompts(ps) == DictValues(ps)

\* Storage.update_prompt, the store afterwards: no insert of a missing key.
Storage_update_prompt(ps, prompt_id, prompt) ==
    IF ~DictHas(ps, prompt_id) THEN ps ELSE DictSet(ps, prompt_id, prompt)

\* Storage.update_prompt, the value returned.
Storage_update_prompt_result(ps, prompt_id, prompt) ==
    IF ~DictHas(ps, prompt_id) THEN None ELSE Some(prompt)

\* Storage.delete_prompt, the store afterwards.
Storage_delete_prompt(ps, prompt_id) ==
    IF DictHas(ps, prompt_id) THEN DictDel(ps, prompt_id) ELSE ps

\* A delete that reports True whether or not the key was there.
AlwaysRemoved(ps, prompt_id) == TRUE

\* Storage.delete_prompt, the value returned.
Storage_delete_prompt_result(ps, prompt_id) == DictHas(ps, prompt_id)

\* Storage.create_collection: self._collections[collection.id] = collection
Storage_create_collection(cs, collection) == DictSet(cs, collection.id, collection)

\* Storage.get_collection: self._collections.get(collection_id)
Storage_get_collection(cs, collection_id) == DictGet(cs, collection_id)

\* Storage.delete_collection, the store afterwards.
Storage_delete_collection(cs, collection_id) ==
    IF DictHas(cs, collection_id) THEN DictDel(cs, collection_id) ELSE cs

\* Storage.delete_collection, the value returned.
Storage_delete_collection_result(cs, collection_id) == DictHas(cs, collection_id)

InCollection(p, collection_id) == p.collection_id = Some(collection_id)

\* A lookup that returns every stored prompt, whatever its collection.
EveryPrompt(ps, collection_id) == DictValues(ps)

\* A delete_collection that forgets the prompts of the collection.
NoCascade(ps, collection_id) == <<>>

\* Storage.get_prompts_by_collection_id: the prompts whose collection_id
\* equals the argument, in storage order.
Storage_get_prompts_by_collection_id(ps, collection_id) ==
    SelectSeq(DictValues(ps), LAMBDA p : InCollection(p, collection_id))

(* ----------------------------- utils.py ------------------------------- *)

\* str.lower() on ASCII text.
Lower(s) == [i \in 1..Len(s) |-> IF s[i] \in 65..90 THEN s[i] + 32 ELSE s[i]]

\* "sub in s" on two strings.
Contains(sub, s) ==
    \E i \in 0..(Len(s) - Len(sub)) : SubSeq(s, i + 1, i + Len(sub)) = sub

\* An insertion that puts the next element ahead of the elements with the
\* same date.
InsertByDateBeforeEquals(sorted, p, descending) ==
    LET before == {i \in 1..Len(sorted) :
                      IF descending THEN sorted[i].created_at > p.created_at
                      ELSE sorted[i].created_at < p.created_at}
        n == Cardinality(before)
    IN SubSeq(sorted, 1, n) \o <<p>> \o SubSeq(sorted, n + 1, Len(sorted))

\* sorted(): where the next element goes in the part sorted so far, behind
\* every element that does not come after it (the sort is stable, also with
\* reverse=True).
InsertByDate(sorted, p, descending) ==
    LET before == {i \in 1..Len(sorted) :
                      IF descending THEN sorted[i].created_at >= p.created_at
                      ELSE sorted[i].created_at <= p.created_at}
        n == Cardinality(before)
    IN SubSeq(sorted, 1, n) \o <<p>> \o SubSeq(sorted, n + 1, Len(sorted))

RECURSIVE SortedByDate(_, _, _)
SortedByDate(sorted, list, descending) ==
    IF list = <<>> THEN sorted
    ELSE SortedByDate(InsertByDate(sorted, Head(list), descending), Tail(list),
                      descending)

\* A sort that returns its input as it came.
UnsortedPrompts(list, descending) == list

\* sort_prompts_by_date: sorted(prompts, key=created_at, reverse=descending)
sort_prompts_by_date(list, descending) == SortedByDate(<<>>, list, descending)

\* A filter that keeps every prompt.
NoCollectionFilter(list, collection_id) == list

\* filter_prompts_by_collection: [p for p in prompts if p.collection_id == collection_id]
filter_prompts_by_collection(list, collection_id) ==
    SelectSeq(list, LAMBDA p : p.collection_id = Some(collection_id))

\* search_prompts raises AttributeError at "p.title.lower()" for the first
\* prompt whose title is None.
search_prompts_raises(list, query) == \E i \in 1..Len(list) : list[i].title = None

\* A search that also looks into the content.
MatchesAlsoContent(p, query) ==
    \/ Contains(Lower(query), Lower(Val(p.title)))
    \/ Truthy(p.description) /\ Contains(Lower(query), Lower(Val(p.description)))
    \/ Contains(Lower(query), Lower(Val(p.content)))

\* search_prompts, the test on one prompt: query_lower in p.title.lower() or
\* (p.description and query_lower in p.description.lower())
SearchMatches(p, query) ==
    \/ Contains(Lower(query), Lower(Val(p.title)))
    \/ Truthy(p.description) /\ Contains(Lower(query), Lower(Val(p.description)))

\* search_prompts, when it does not raise: the matching prompts in input order.
search_prompts(list, query) == SelectSeq(list, LAMBDA p : SearchMatches(p, query))

(* ------------------------------ api.py -------------------------------- *)

\* get_current_time(): a read of the clock returns a value not before the
\* last one read.
ClockReads == clock..MaxClock

\* What a handler answers: the HTTP status and the entity returned.
Response(op, id, data, status, ret) ==
    [op |-> op, id |-> id, data |-> data, status |-> status, ret |-> ret,
     deleted |-> DictKeys(prompts) \ DictKeys(prompts')]

NoData == [fields_set |-> {}]

\* create_prompt / update_prompt / patch_prompt: "if prompt_data.collection_id:"
\* then storage.get_collection, "if not collection:" 400.
CollectionNotFound(cs, collection_id) ==
    Truthy(collection_id) /\ Storage_get_collection(cs, Val(collection_id)) = None

\* A constructor that loses the description.
NewPromptDropsDescription(id, prompt_data, t1, t2) ==
    Prompt(id, prompt_data.title, prompt_data.content, None,
           prompt_data.collection_id, t1, t2)

\* create_prompt: Prompt(**prompt_data.model_dump()).  The default
\* factories run in field order: generate_id, then get_current_time for
\* created_at, then get_current_time again for updated_at.
NewPrompt(id, prompt_data, t1, t2) ==
    Prompt(id, prompt_data.title, prompt_data.content, prompt_data.description,
           prompt_data.collection_id, t1, t2)

\* POST /prompts
create_prompt(prompt_data) ==
    IF ~PromptBaseValid(prompt_data)
    THEN /\ UNCHANGED <<prompts, collections, clock, nPrompts, nCollections>>
         /\ last' = Response("create_prompt", Empty, prompt_data, 422, None)
    ELSE IF CollectionNotFound(collections, prompt_data.collection_id)
    THEN /\ UNCHANGED <<prompts, collections, clock, nPrompts, nCollections>>
         /\ last' = Response("create_prompt", Empty, prompt_data, 400, None)
    ELSE \E t1 \in ClockReads : \E t2 \in t1..MaxClock :
         LET prompt == NewPrompt(PromptId(nPrompts + 1), prompt_data, t1, t2)
         IN /\ prompts' = Storage_create_prompt(prompts, prompt)
            /\ nPrompts' = nPrompts + 1
            /\ clock' = t2
            /\ UNCHANGED <<collections, nCollections>>
            /\ last' = Response("create_prompt", prompt.id, prompt_data, 201,
                                Some(prompt))

\* A replace that keeps the stored description when the payload omits it.
ReplacedPromptKeepsDescription(existing, prompt_data, now) ==
    Prompt(existing.id, prompt_data.title, prompt_data.content,
           IF prompt_data.description = None THEN existing.description
           ELSE prompt_data.description,
           prompt_data.collection_id, existing.created_at, now)

\* A replace that stamps created_at as well.
ReplacedPromptNewCreatedAt(existing, prompt_data, now) ==
    Prompt(existing.id, prompt_data.title, prompt_data.content,
           prompt_data.description, prompt_data.collection_id, now, now)

\* update_prompt: the Prompt(...) the handler builds from the stored one
\* and the payload.
ReplacedPrompt(existing, prompt_data, now) ==
    Prompt(existing.id, prompt_data.title, prompt_data.content,
           prompt_data.description, prompt_data.collection_id,
           existing.created_at, now)

\* PUT /prompts/{prompt_id}
update_prompt(prompt_id, prompt_data) ==
    LET existing == Storage_get_prompt(prompts, prompt_id) IN
    IF ~PromptBaseValid(prompt_data)
    THEN /\ UNCHANGED <<prompts, collections, clock, nPrompts, nCollections>>
         /\ last' = Response("update_prompt", prompt_id, prompt_data, 422, None)
    ELSE IF existing = None
    THEN /\ UNCHANGED <<prompts, collections, clock, nPrompts, nCollections>>
         /\ last' = Response("update_prompt", prompt_id, prompt_data, 404, None)
    ELSE IF CollectionNotFound(collections, prompt_data.collection_id)
    THEN /\ UNCHANGED <<prompts, collections, clock, nPrompts, nCollections>>
         /\ last' = Response("update_prompt", prompt_id, prompt_data, 400, None)
    ELSE \E now \in ClockReads :
         LET updated_prompt == ReplacedPrompt(Val(existing), prompt_data, now)
         IN /\ prompts' = Storage_update_prompt(prompts, prompt_id, updated_prompt)
            /\ clock' = now
            /\ UNCHANGED <<collections, nPrompts, nCollections>>
            /\ last' = Response("update_prompt", prompt_id, prompt_data, 200,
                                Storage_update_prompt_result(prompts, prompt_id,
                                                             updated_prompt))

\* prompt_data.dict(exclude_unset=True): the names of the supplied fields.
UpdatedFields(prompt_data) == prompt_data.fields_set

\* A merge that clears the description whenever it is not supplied.
ModelCopyClearsDescription(existing, prompt_data) ==
    [existing EXCEPT
       !.title = IF "title" \in prompt_data.fields_set
                 THEN prompt_data.title ELSE @,
       !.content = IF "content" \in prompt_data.fields_set
                   THEN prompt_data.content ELSE @,
       !.description = prompt_data.description,
       !.collection_id = IF "collection_id" \in prompt_data.fields_set
                         THEN prompt_data.collection_id ELSE @]

\* existing.model_copy(update=updated_fields): a copy with the supplied
\* fields replaced, without validation.
ModelCopy(existing, prompt_data) ==
    [existing EXCEPT
       !.title = IF "title" \in UpdatedFields(prompt_data)
                 THEN prompt_data.title ELSE @,
       !.content = IF "content" \in UpdatedFields(prompt_data)
                   THEN prompt_data.content ELSE @,
       !.description = IF "description" \in UpdatedFields(prompt_data)
                       THEN prompt_data.description ELSE @,
       !.collection_id = IF "collection_id" \in UpdatedFields(prompt_data)
                         THEN prompt_data.collection_id ELSE @]

\* A merge that stamps updated_at on every call.
AlwaysBumps(existing, prompt_data) == TRUE

\* patch_prompt: "if updated_fields:" the copy gets a new updated_at,
\* whatever the values supplied.
BumpsUpdatedAt(existing, prompt_data) == UpdatedFields(prompt_data) # {}

\* PATCH /prompts/{prompt_id}
patch_prompt(prompt_id, raw) ==
    LET prompt_data == PromptUpdateOptional(raw)
        existing == Storage_get_prompt(prompts, prompt_id)
    IN
    IF ~PromptUpdateOptionalValid(prompt_data)
    THEN /\ UNCHANGED <<prompts, collections, clock, nPrompts, nCollections>>
         /\ last' = Response("patch_prompt", prompt_id, raw, 422, None)
    ELSE IF existing = None
    THEN /\ UNCHANGED <<prompts, collections, clock, nPrompts, nCollections>>
         /\ last' = Response("patch_prompt", prompt_id, raw, 404, None)
    ELSE IF CollectionNotFound(collections, prompt_data.collection_id)
    THEN /\ UNCHANGED <<prompts, collections, clock, nPrompts, nCollections>>
         /\ last' = Response("patch_prompt", prompt_id, raw, 400, None)
    ELSE IF BumpsUpdatedAt(Val(existing), prompt_data)
    THEN \E now \in ClockReads :
         LET updated_prompt ==
               [ModelCopy(Val(existing), prompt_data) EXCEPT !.updated_at = now]
         IN /\ prompts' = Storage_update_prompt(prompts, prompt_id, updated_prompt)
            /\ clock' = now
            /\ UNCHANGED <<collections, nPrompts, nCollections>>
            /\ last' = Response("patch_prompt", prompt_id, raw, 200,
                                Storage_update_prompt_result(prompts, prompt_id,
                                                             updated_prompt))
    ELSE /\ prompts' = Storage_update_prompt(prompts, prompt_id, Val(existing))
         /\ UNCHANGED <<collections, clock, nPrompts, nCollections>>
         /\ last' = Response("patch_prompt", prompt_id, raw, 200,
                             Storage_update_prompt_result(prompts, prompt_id,
                                                          Val(existing)))

\* A delete_prompt that takes the prompt's collection with it.
DeletePromptWithCollection(prompt_id) ==
    LET prompt == Storage_get_prompt(prompts, prompt_id) IN
    /\ prompts' = Storage_delete_prompt(prompts, prompt_id)
    /\ collections' = IF prompt # None /\ Val(prompt).collection_id # None
                      THEN Storage_delete_collection(collections,
                                                     Val(Val(prompt).collection_id))
                      ELSE collections
    /\ last' = Response("delete_prompt", prompt_id, NoData,
                        IF Storage_delete_prompt_result(prompts, prompt_id)
                        THEN 204 ELSE 404, None)
    /\ UNCHANGED <<clock, nPrompts, nCollections>>

\* DELETE /prompts/{prompt_id}
delete_prompt(prompt_id) ==
    /\ prompts' = Storage_delete_prompt(prompts, prompt_id)
    /\ last' = Response("delete_prompt", prompt_id, NoData,
                        IF Storage_delete_prompt_result(prompts, prompt_id)
                        THEN 204 ELSE 404, None)
    /\ UNCHANGED <<collections, clock, nPrompts, nCollections>>

\* PromptList(prompts=prompts, total=len(prompts))
PromptList(list) == [prompts |-> list, total |-> Len(list)]

\* list_prompts, after storage.get_all_prompts(): "if collection_id:" filter.
ListFiltered(list, collection_id) ==
    IF Truthy(collection_id)
    THEN filter_prompts_by_collection(list, Val(collection_id)) ELSE list

\* GET /prompts?collection_id=&search=: filter, search, sort.  An exception
\* in search_prompts is answered 500.
list_prompts(collection_id, search) ==
    LET filtered == ListFiltered(Storage_get_all_prompts(prompts), collection_id)
        query == [collection_id |-> collection_id, search |-> search]
    IN
    /\ UNCHANGED <<prompts, collections, clock, nPrompts, nCollections>>
    /\ IF Truthy(search) /\ search_prompts_raises(filtered, Val(search))
       THEN last' = Response("list_prompts", Empty, query, 500, None)
       ELSE LET found == IF Truthy(search)
                         THEN search_prompts(filtered, Val(search)) ELSE filtered
            IN last' = Response("list_prompts", Empty, query, 200,
                                Some(PromptList(sort_prompts_by_date(found, TRUE))))

\* GET /prompts/{prompt_id}
get_prompt(prompt_id) ==
    LET prompt == Storage_get_prompt(prompts, prompt_id) IN
    /\ UNCHANGED <<prompts, collections, clock, nPrompts, nCollections>>
    /\ last' = Response("get_prompt", prompt_id, NoData,
                        IF prompt = None THEN 404 ELSE 200, prompt)

\* GET /collections/{collection_id}
get_collection(collection_id) ==
    LET collection == Storage_get_collection(collections, collection_id) IN
    /\ UNCHANGED <<prompts, collections, clock, nPrompts, nCollections>>
    /\ last' = Response("get_collection", collection_id, NoData,
                        IF collection = None THEN 404 ELSE 200, collection)

\* POST /collections
create_collection(collection_data) ==
    IF ~CollectionBaseValid(collection_data)
    THEN /\ UNCHANGED <<prompts, collections, clock, nPrompts, nCollections>>
         /\ last' = Response("create_collection", Empty, collection_data, 422, None)
    ELSE \E now \in ClockReads :
         LET collection == Collection(CollectionId(nCollections + 1),
                                      collection_data.name,
                                      collection_data.description, now)
         IN /\ collections' = Storage_create_collection(collections, collection)
            /\ nCollections' = nCollections + 1
            /\ clock' = now
            /\ UNCHANGED <<prompts, nPrompts>>
            /\ last' = Response("create_collection", collection.id,
                                collection_data, 201, Some(collection))

\* PUT /collections/{collection_id}: the collection endpoints are the GET,
\* POST and DELETE routes; no route takes PUT, so the router answers 405
\* Method Not Allowed and no handler runs.
update_collection(collection_id, collection_data) ==
    /\ UNCHANGED <<prompts, collections, clock, nPrompts, nCollections>>
    /\ last' = Response("update_collection", collection_id, collection_data,
                        405, None)

\* delete_collection: "for prompt in prompts: storage.delete_prompt(prompt.id)"
RECURSIVE DeleteEach(_, _)
DeleteEach(ps, list) ==
    IF list = <<>> THEN ps
    ELSE DeleteEach(Storage_delete_prompt(ps, Head(list).id), Tail(list))

\* DELETE /collections/{collection_id}: the prompts of the collection are
\* deleted first, then the collection; 404 when that reports False.
delete_collection(collection_id) ==
    LET list == Storage_get_prompts_by_collection_id(prompts, collection_id) IN
    /\ prompts' = DeleteEach(prompts, list)
    /\ collections' = Storage_delete_collection(collections, collection_id)
    /\ last' = Response("delete_collection", collection_id, NoData,
                        IF Storage_delete_collection_result(collections, collection_id)
                        THEN 204 ELSE 404, None)
    /\ UNCHANGED <<clock, nPrompts, nCollections>>

(* ------------------- api.py, in the worker threads -------------------- *)

\* The handlers are plain "def" functions: the server runs each request in a
\* thread of its pool, storage is one shared object without a lock, and a
\* thread may be suspended between any two statements.  One step below is a
\* statement (or a run of statements) that reads or writes the shared dicts
\* once.

\* The worker threads of the pool that runs the handlers.
Threads == 1..MaxThreads

\* A worker thread: where it is in its handler (pc), the request (op, id,
\* data), the handler's locals (existing, todo, and size for a dict iterator)
\* and, once it is done, what it answered (status, ret).  snapshot is what
\* was stored under the request's id when the request arrived.
Thread(pc, op, id, data, existing, todo, size, snapshot, status, ret) ==
    [pc |-> pc, op |-> op, id |-> id, data |-> data, existing |-> existing,
     todo |-> todo, size |-> size, snapshot |-> snapshot, status |-> status,
     ret |-> ret]

\* A worker thread without a request.
IdleThread == Thread("idle", "none", Empty, NoData, None, <<>>, 0, None, 0, None)

AllIdle == \A t \in Threads : threads[t].pc = "idle"

\* A request arrives at an idle worker thread (its body has passed the
\* request model's validation).
Begin(t, op, id, data, pc) ==
    /\ threads[t].pc = "idle"
    /\ threads' = [threads EXCEPT
                     ![t] = Thread(pc, op, id, data, None, <<>>, 0,
                                   DictGet(prompts, id), 0, None)]
    /\ UNCHANGED <<prompts, collections, clock, nPrompts, nCollections, last, moved>>

\* The handler of thread t returns or raises: the answer is recorded.
Finish(t, status, ret) ==
    /\ threads' = [threads EXCEPT ![t] = [@ EXCEPT !.pc = "done",
                                                   !.status = status,
                                                   !.ret = ret]]
    /\ last' = Response(threads[t].op, threads[t].id, threads[t].data, status, ret)

\* Thread t moves on to another statement of its handler.
Goto(t, pc) == threads' = [threads EXCEPT ![t] = [@ EXCEPT !.pc = pc]]

\* create_prompt: the collection check.
CreateCheck(t) ==
    /\ threads[t].pc = "create_check"
    /\ UNCHANGED <<prompts, collections, clock, nPrompts, nCollections, moved>>
    /\ IF CollectionNotFound(collections, threads[t].data.collection_id)
       THEN Finish(t, 400, None)
       ELSE Goto(t, "create_store") /\ UNCHANGED last

\* create_prompt: Prompt(...) and storage.create_prompt.
CreateStore(t) ==
    /\ threads[t].pc = "create_store"
    /\ \E t1 \in ClockReads : \E t2 \in t1..MaxClock :
         LET prompt == NewPrompt(PromptId(nPrompts + 1), threads[t].data, t1, t2)
         IN /\ prompts' = Storage_create_prompt(prompts, prompt)
            /\ nPrompts' = nPrompts + 1
            /\ clock' = t2
            /\ UNCHANGED <<collections, nCollections, moved>>
            /\ Finish(t, 201, Some(prompt))

\* update_prompt / patch_prompt: existing = storage.get_prompt(prompt_id),
\* "if not existing:" 404.
UpdateGet(t) ==
    /\ threads[t].pc = "update_get"
    /\ UNCHANGED <<prompts, collections, clock, nPrompts, nCollections, moved>>
    /\ LET existing == Storage_get_prompt(prompts, threads[t].id) IN
       IF existing = None
       THEN Finish(t, 404, None)
       ELSE /\ threads' = [threads EXCEPT ![t] = [@ EXCEPT !.pc = "update_check",
                                                           !.existing = existing]]
            /\ UNCHANGED last

\* The body of a PUT or PATCH as the handler reads it.
BodyOf(th) ==
    IF th.op = "patch_prompt" THEN PromptUpdateOptional(th.data) ELSE th.data

\* update_prompt / patch_prompt: the Prompt that the handler hands to
\* storage.update_prompt, built from its local "existing".
UpdatedPrompt(th, now) ==
    IF th.op = "update_prompt"
    THEN ReplacedPrompt(Val(th.existing), th.data, now)
    ELSE IF BumpsUpdatedAt(Val(th.existing), BodyOf(th))
    THEN [ModelCopy(Val(th.existing), BodyOf(th)) EXCEPT !.updated_at = now]
    ELSE Val(th.existing)

\* update_prompt / patch_prompt: the collection check, then the new Prompt
\* (kept in "existing" until it is stored).
UpdateCheck(t) ==
    /\ threads[t].pc = "update_check"
    /\ UNCHANGED <<prompts, collections, nPrompts, nCollections, moved>>
    /\ IF CollectionNotFound(collections, BodyOf(threads[t]).collection_id)
       THEN UNCHANGED clock /\ Finish(t, 400, None)
       ELSE \E now \in ClockReads :
            /\ clock' = IF threads[t].op = "update_prompt"
                           \/ BumpsUpdatedAt(Val(threads[t].existing), BodyOf(threads[t]))
                        THEN now ELSE clock
            /\ threads' = [threads EXCEPT
                             ![t] = [@ EXCEPT !.pc = "storage_update_test",
                                              !.existing =
                                                 Some(UpdatedPrompt(threads[t], clock'))]]
            /\ UNCHANGED last

\* Storage.update_prompt: "if prompt_id not in self._prompts: return None".
\* The handler returns that None, which is not a Prompt: the response fails.
StorageUpdateTest(t) ==
    /\ threads[t].pc = "storage_update_test"
    /\ UNCHANGED <<prompts, collections, clock, nPrompts, nCollections, moved>>
    /\ IF ~DictHas(prompts, threads[t].id)
       THEN Finish(t, 500, None)
       ELSE Goto(t, "storage_update_write") /\ UNCHANGED last

\* Storage.update_prompt: "self._prompts[prompt_id] = prompt; return prompt".
StorageUpdateWrite(t) ==
    /\ threads[t].pc = "storage_update_write"
    /\ prompts' = DictSet(prompts, threads[t].id, Val(threads[t].existing))
    /\ UNCHANGED <<collections, clock, nPrompts, nCollections, moved>>
    /\ Finish(t, 200, threads[t].existing)

\* Storage.delete_prompt: "if prompt_id in self._prompts:", else return
\* False and the handler raises 404.
DeletePromptTest(t) ==
    /\ threads[t].pc = "delete_prompt_test"
    /\ UNCHANGED <<prompts, collections, clock, nPrompts, nCollections, moved>>
    /\ IF ~DictHas(prompts, threads[t].id)
       THEN Finish(t, 404, None)
       ELSE Goto(t, "delete_prompt_write") /\ UNCHANGED last

\* Storage.delete_prompt: "del self._prompts[prompt_id]", a KeyError when
\* the key has gone meanwhile.
DeletePromptWrite(t) ==
    /\ threads[t].pc = "delete_prompt_write"
    /\ prompts' = DictDel(prompts, threads[t].id)
    /\ UNCHANGED <<collections, clock, nPrompts, nCollections, moved>>
    /\ Finish(t, IF DictHas(prompts, threads[t].id) THEN 204 ELSE 500, None)

\* Storage.get_prompts_by_collection_id: the comprehension starts to iterate
\* over self._prompts.values(); an empty dict ends it at once.
DeleteCollectionList(t) ==
    /\ threads[t].pc = "delete_collection_list"
    /\ threads' = [threads EXCEPT
                     ![t] = [@ EXCEPT !.pc = IF Len(prompts) = 0
                                             THEN "delete_collection_each"
                                             ELSE "delete_collection_listed",
                                      !.size = Len(prompts)]]
    /\ UNCHANGED <<prompts, collections, clock, nPrompts, nCollections, last, moved>>

\* Storage.get_prompts_by_collection_id: the iteration goes on to its end, a
\* RuntimeError (dictionary changed size during iteration) when a key was
\* added or removed meanwhile.
DeleteCollectionListed(t) ==
    /\ threads[t].pc = "delete_collection_listed"
    /\ UNCHANGED <<prompts, collections, clock, nPrompts, nCollections, moved>>
    /\ IF Len(prompts) # threads[t].size
       THEN Finish(t, 500, None)
       ELSE /\ threads' = [threads EXCEPT
                             ![t] = [@ EXCEPT !.pc = "delete_collection_each",
                                              !.todo = Storage_get_prompts_by_collection_id(
                                                          prompts, threads[t].id)]]
            /\ UNCHANGED last

\* delete_collection: "for prompt in prompts:", and in storage.delete_prompt
\* "if prompt_id in self._prompts:" (the result is not looked at); after the
\* last round on to storage.delete_collection.
DeleteCollectionEach(t) ==
    /\ threads[t].pc = "delete_collection_each"
    /\ threads' = [threads EXCEPT
                     ![t] = IF threads[t].todo = <<>>
                            THEN [@ EXCEPT !.pc = "delete_collection_test"]
                            ELSE IF DictHas(prompts, Head(threads[t].todo).id)
                            THEN [@ EXCEPT !.pc = "delete_collection_each_write"]
                            ELSE [@ EXCEPT !.todo = Tail(@)]]
    /\ UNCHANGED <<prompts, collections, clock, nPrompts, nCollections, last, moved>>

\* delete_collection, in storage.delete_prompt: "del self._prompts[prompt_id]",
\* a KeyError when the key has gone meanwhile.
DeleteCollectionEachWrite(t) ==
    /\ threads[t].pc = "delete_collection_each_write"
    /\ prompts' = DictDel(prompts, Head(threads[t].todo).id)
    /\ UNCHANGED <<collections, clock, nPrompts, nCollections, moved>>
    /\ IF DictHas(prompts, Head(threads[t].todo).id)
       THEN /\ threads' = [threads EXCEPT
                             ![t] = [@ EXCEPT !.pc = "delete_collection_each",
                                              !.todo = Tail(@)]]
            /\ UNCHANGED last
       ELSE Finish(t, 500, None)

\* Storage.delete_collection: "if collection_id in self._collections:", else
\* return False and the handler raises 404.
DeleteCollectionTest(t) ==
    /\ threads[t].pc = "delete_collection_test"
    /\ UNCHANGED <<prompts, collections, clock, nPrompts, nCollections, moved>>
    /\ IF ~DictHas(collections, threads[t].id)
       THEN Finish(t, 404, None)
       ELSE Goto(t, "delete_collection_write") /\ UNCHANGED last

\* Storage.delete_collection: "del self._collections[collection_id]", a
\* KeyError when the key has gone meanwhile.
DeleteCollectionWrite(t) ==
    /\ threads[t].pc = "delete_collection_write"
    /\ collections' = DictDel(collections, threads[t].id)
    /\ UNCHANGED <<prompts, clock, nPrompts, nCollections, moved>>
    /\ Finish(t, IF DictHas(collections, threads[t].id) THEN 204 ELSE 500, None)

(* ----------------------------- requests ------------------------------- *)

\* Ids a request may name: every id a run can hand out, stored or not.
PromptIds == {PromptId(k) : k \in 1..MaxPrompts}

CollectionIds(n) == {CollectionId(k) : k \in 1..n}

\* collection_id of a POST or PUT body: null, "" and the ids (an id that
\* is not stored, or no longer, is the unknown one).
CollectionIdInputs(n) == {None, Some(Empty)} \cup {Some(c) : c \in CollectionIds(n)}

\* Bodies of POST /prompts and PUT /prompts/{id}.  The one with the empty
\* title is the invalid one.
PromptPayloads ==
    {d \in [title : {Some(Empty), Some(TextA)}, content : {Some(TextA)},
            description : {None, Some(TextA)},
            collection_id : CollectionIdInputs(MaxCollections)] :
        d.title = Some(Empty) => d.description = None /\ d.collection_id = None}

\* Bodies of PATCH /prompts/{id}: at most MaxPatchFields supplied fields,
\* each null, "", " " or a text.
PatchPayloads ==
    {raw \in [fields_set : SUBSET PatchFields,
              title : {None, Some(Blank), Some(TextA)},
              content : {None, Some(TextA)},
              description : {None, Some(Empty), Some(Blank), Some(TextA)},
              collection_id : {None, Some(Blank)}
                              \cup {Some(c) : c \in CollectionIds(MaxCollections)}] :
        /\ Cardinality(raw.fields_set) <= MaxPatchFields
        /\ "title" \notin raw.fields_set <=> raw.title = None
        /\ "content" \notin raw.fields_set <=> raw.content = None
        /\ "description" \notin raw.fields_set => raw.description = None
        /\ "collection_id" \notin raw.fields_set <=> raw.collection_id = None}

\* Bodies of POST /collections.
CollectionPayloads == [name : {Some(Empty), Some(TextA)}, description : {None}]

\* Bodies of POST /prompts in the runs about collection deletion.
CascadePromptPayloads ==
    [title : {Some(TextA)}, content : {Some(TextA)}, description : {None},
     collection_id : CollectionIdInputs(MaxCascadeCollections)]

\* Two-letter and one-letter titles, an upper-case and a lower-case text.
TextXA == <<120, 65>>

TextX == <<120>>

TextUpperA == <<65>>

\* Bodies of POST /prompts in the runs about reading: the content is "b",
\* the title has an upper-case "A" in it or not, the description is "a" or
\* absent.
QueryPromptPayloads ==
    [title : {Some(TextXA), Some(TextX)}, content : {Some(TextB)},
     description : {None, Some(TextA)},
     collection_id : CollectionIdInputs(MaxCollections) \ {Some(Empty)}]

\* Bodies of PUT /prompts/{id} in the runs about reading.
QueryReplacePayloads ==
    {d \in QueryPromptPayloads : d.title = Some(TextX) /\ d.collection_id = None}

\* Bodies of PATCH /prompts/{id} in the runs about reading.
QueryPatchPayloads ==
    {raw \in PatchPayloads : raw.fields_set = {"title"} /\ raw.title = Some(Blank)}

\* ?collection_id= of GET /prompts: absent, empty, or an id.
ListCollectionIds == CollectionIdInputs(MaxCollections)

\* ?search= of GET /prompts: absent, empty, or a text.
ListSearches == {None, Some(Empty), Some(TextA), Some(TextUpperA), Some(TextB)}

\* A text of n letters.
Repeat(c, n) == [i \in 1..n |-> c]

\* Descriptions at and just over the maximum length.
LongDescriptions ==
    {Some(Repeat(97, DescriptionMaxLength)), Some(Repeat(97, DescriptionMaxLength + 1))}

\* Bodies of POST /prompts in the runs about validation: empty,
\* whitespace-only and plain texts, and texts at and just over the maximum
\* lengths.
ValidationPromptPayloads ==
    [title : {Some(Empty), Some(Blank), Some(TextA),
              Some(Repeat(97, TitleMaxLength)), Some(Repeat(97, TitleMaxLength + 1))},
     content : {Some(Empty), Some(Blank), Some(TextA)},
     description : {None} \cup LongDescriptions,
     collection_id : {None}]

\* Bodies of POST /collections in the runs about validation.
ValidationCollectionPayloads ==
    [name : {Some(Empty), Some(Blank), Some(TextA),
             Some(Repeat(97, NameMaxLength)), Some(Repeat(97, NameMaxLength + 1))},
     description : {None} \cup LongDescriptions]

\* Bodies of PUT /collections/{id}.
CollectionReplacePayloads ==
    [name : {Some(Empty), Some(TextB)}, description : {None, Some(TextA)}]

\* Bodies of POST /prompts and PUT /prompts/{id} in the runs about moving
\* prompts between collections.
MovePromptPayloads ==
    [title : {Some(TextA)}, content : {Some(TextA)}, description : {None},
     collection_id : {None} \cup {Some(c) : c \in CollectionIds(MaxCascadeCollections)}]

\* Bodies of PATCH /prompts/{id} in the same runs: the collection_id alone,
\* blank or an id.
MovePatchPayloads ==
    [fields_set : {{"collection_id"}}, title : {None}, content : {None},
     description : {None},
     collection_id : {Some(Blank)}
                     \cup {Some(c) : c \in CollectionIds(MaxCascadeCollections)}]

\* Bodies of POST /prompts and PUT /prompts/{id} in the runs with worker
\* threads.
ThreadPromptPayloads ==
    [title : {Some(TextA)}, content : {Some(TextA)}, description : {None},
     collection_id : {None} \cup {Some(c) : c \in CollectionIds(MaxCollections)}]

\* Bodies of PATCH /prompts/{id} in the same runs: a title, a description or
\* a collection_id.
ThreadPatchPayloads ==
    {raw \in PatchPayloads :
        \/ raw.fields_set = {"title"} /\ raw.title = Some(TextA)
        \/ raw.fields_set = {"description"} /\ raw.description = Some(TextA)
        \/ raw.fields_set = {"collection_id"} /\ raw.collection_id # Some(Blank)}

(* --------------------------- specification ---------------------------- *)

Init ==
    /\ prompts = <<>>
    /\ collections = <<>>
    /\ clock = 0
    /\ nPrompts = 0
    /\ nCollections = 0
    /\ last = [op |-> "init", id |-> Empty, data |-> NoData, status |-> 0,
               ret |-> None, deleted |-> {}]
    /\ threads = [t \in Threads |-> IdleThread]
    /\ moved = {}

\* Every handler, called one at a time.
Next ==
    \/ \E d \in PromptPayloads : nPrompts < MaxPrompts /\ create_prompt(d) /\ UNCHANGED hist
    \/ \E id \in PromptIds : \E d \in PromptPayloads : update_prompt(id, d) /\ UNCHANGED hist
    \/ \E id \in PromptIds : \E raw \in PatchPayloads : patch_prompt(id, raw) /\ UNCHANGED hist
    \/ \E id \in PromptIds : delete_prompt(id) /\ UNCHANGED hist
    \/ \E d \in CollectionPayloads :
          nCollections < MaxCollections /\ create_collection(d) /\ UNCHANGED hist
    \/ \E id \in CollectionIds(MaxCollections) \cup {Empty} : delete_collection(id) /\ UNCHANGED hist

Spec == Init /\ [][Next]_vars

\* The handlers that create and delete, with more collections.
CascadeNext ==
    \/ \E d \in CascadePromptPayloads : nPrompts < MaxPrompts /\ create_prompt(d) /\ UNCHANGED hist
    \/ \E id \in PromptIds : delete_prompt(id) /\ UNCHANGED hist
    \/ \E d \in CollectionPayloads :
          nCollections < MaxCascadeCollections /\ create_collection(d) /\ UNCHANGED hist
    \/ \E id \in CollectionIds(MaxCascadeCollections) \cup {Empty} :
          delete_collection(id) /\ UNCHANGED hist

SpecCascade == Init /\ [][CascadeNext]_vars

\* The handlers that read, after any of the handlers that write.
QueryNext ==
    \/ \E d \in QueryPromptPayloads : nPrompts < MaxPrompts /\ create_prompt(d) /\ UNCHANGED hist
    \/ \E id \in PromptIds : \E d \in QueryReplacePayloads : update_prompt(id, d) /\ UNCHANGED hist
    \/ \E id \in PromptIds : delete_prompt(id) /\ UNCHANGED hist
    \/ \E d \in CollectionPayloads :
          nCollections < MaxCollections /\ create_collection(d) /\ UNCHANGED hist
    \/ \E id \in PromptIds : \E raw \in QueryPatchPayloads : patch_prompt(id, raw) /\ UNCHANGED hist
    \/ \E id \in PromptIds : get_prompt(id) /\ UNCHANGED hist
    \/ \E id \in CollectionIds(MaxCollections) : get_collection(id) /\ UNCHANGED hist
    \/ \E c \in ListCollectionIds : \E q \in ListSearches : list_prompts(c, q) /\ UNCHANGED hist

SpecQuery == Init /\ [][QueryNext]_vars

\* The two handlers that create, with bodies at the edges of validation.
ValidationNext ==
    \/ \E d \in ValidationPromptPayloads :
          nPrompts < MaxValidationPrompts /\ create_prompt(d) /\ UNCHANGED hist
    \/ \E d \in ValidationCollectionPayloads :
          nCollections < MaxCollections /\ create_collection(d) /\ UNCHANGED hist

SpecValidation == Init /\ [][ValidationNext]_vars

\* The requests on collections.
CollectionsNext ==
    \/ \E d \in CollectionPayloads :
          nCollections < MaxCascadeCollections /\ create_collection(d) /\ UNCHANGED hist
    \/ \E id \in CollectionIds(MaxCascadeCollections) :
          \E d \in CollectionReplacePayloads : update_collection(id, d) /\ UNCHANGED hist
    \/ \E id \in CollectionIds(MaxCascadeCollections) : get_collection(id) /\ UNCHANGED hist
    \/ \E id \in CollectionIds(MaxCascadeCollections) : delete_collection(id) /\ UNCHANGED hist

SpecCollections == Init /\ [][CollectionsNext]_vars

\* Every handler that reads or writes, called one at a time.
FrameNext ==
    \/ QueryNext
    \/ \E id \in CollectionIds(MaxCollections) : delete_collection(id) /\ UNCHANGED hist
    \/ \E id \in CollectionIds(MaxCollections) :
          \E d \in CollectionReplacePayloads : update_collection(id, d) /\ UNCHANGED hist

SpecFrame == Init /\ [][FrameNext]_vars

\* The record of the prompts that left a collection, after a PUT or PATCH
\* of this prompt: one more entry when its collection_id was set and is now
\* another value.
MovedAfter(prompt_id) ==
    LET before == DictGet(prompts, prompt_id)
        after == DictGet(prompts', prompt_id)
    IN IF /\ before # None
          /\ after # None
          /\ Val(before).collection_id # None
          /\ Val(after).collection_id # Val(before).collection_id
       THEN moved \cup {[prompt |-> prompt_id,
                         from |-> Val(Val(before).collection_id)]}
       ELSE moved

\* The handlers that put prompts into collections, move them and delete
\* collections.
MoveNext ==
    \/ \E d \in MovePromptPayloads : nPrompts < MaxPrompts /\ create_prompt(d) /\ UNCHANGED hist
    \/ \E d \in CollectionPayloads :
          nCollections < MaxCascadeCollections /\ create_collection(d) /\ UNCHANGED hist
    \/ \E id \in PromptIds : \E d \in MovePromptPayloads :
          update_prompt(id, d) /\ moved' = MovedAfter(id) /\ UNCHANGED threads
    \/ \E id \in PromptIds : \E raw \in MovePatchPayloads :
          patch_prompt(id, raw) /\ moved' = MovedAfter(id) /\ UNCHANGED threads
    \/ \E id \in CollectionIds(MaxCascadeCollections) : delete_collection(id) /\ UNCHANGED hist

SpecMove == Init /\ [][MoveNext]_vars

\* Requests that arrive while others are in progress: first a collection
\* and a prompt are stored, then each worker thread takes one request and
\* the threads run their handlers in any interleaving.
ThreadsNext ==
    \/ \E d \in CollectionPayloads :
          /\ AllIdle /\ nCollections < MaxCollections
          /\ create_collection(d) /\ UNCHANGED hist
    \/ \E d \in ThreadPromptPayloads :
          /\ AllIdle /\ nPrompts < MaxSetupPrompts
          /\ create_prompt(d) /\ UNCHANGED hist
    \/ \E t \in Threads : \E d \in ThreadPromptPayloads :
          nPrompts < MaxPrompts /\ Begin(t, "create_prompt", Empty, d, "create_check")
    \/ \E t \in Threads : \E d \in ThreadPromptPayloads :
          Begin(t, "update_prompt", PromptId(1), d, "update_get")
    \/ \E t \in Threads : \E raw \in ThreadPatchPayloads :
          Begin(t, "patch_prompt", PromptId(1), raw, "update_get")
    \/ \E t \in Threads :
          Begin(t, "delete_prompt", PromptId(1), NoData, "delete_prompt_test")
    \/ \E t \in Threads : \E c \in CollectionIds(MaxCollections) :
          Begin(t, "delete_collection", c, NoData, "delete_collection_list")
    \/ \E t \in Threads : CreateCheck(t)
    \/ \E t \in Threads : CreateStore(t)
    \/ \E t \in Threads : UpdateGet(t)
    \/ \E t \in Threads : UpdateCheck(t)
    \/ \E t \in Threads : StorageUpdateTest(t)
    \/ \E t \in Threads : StorageUpdateWrite(t)
    \/ \E t \in Threads : DeletePromptTest(t)
    \/ \E t \in Threads : DeletePromptWrite(t)
    \/ \E t \in Threads : DeleteCollectionList(t)
    \/ \E t \in Threads : DeleteCollectionListed(t)
    \/ \E t \in Threads : DeleteCollectionEach(t)
    \/ \E t \in Threads : DeleteCollectionEachWrite(t)
    \/ \E t \in Threads : DeleteCollectionTest(t)
    \/ \E t \in Threads : DeleteCollectionWrite(t)

SpecThreads == Init /\ [][ThreadsNext]_vars

(* ------------------------------ claims -------------------------------- *)

\* The stored prompt with this id (the id is a key of the store).
PromptAt(ps, id) == Val(DictGet(ps, id))

\* Some stored collection has this Optional[str] as its id.
NamesCollection(cs, o) == o # None /\ DictHas(cs, Val(o))

IsBlank(o) == o # None /\ Strip(Val(o)) = <<>>

StoresUnchanged == UNCHANGED <<prompts, collections>>

\* C1: create_prompt with a collection_id that matches no stored collection
\* answers 400 (unknown collection) and changes neither store.
C1_UnknownCollectionRejected ==
    [][(/\ last'.op = "create_prompt"
        /\ PromptBaseValid(last'.data)
        /\ last'.data.collection_id # None
        /\ ~NamesCollection(collections, last'.data.collection_id))
       => (last'.status = 400 /\ StoresUnchanged)]_vars

C3_MissingCollectionNoEffect ==
    [][(last'.op = "delete_collection" /\ ~DictHas(collections, last'.id))
       => (last'.status = 404 /\ StoresUnchanged)]_vars

\* C4: a PUT on a stored prompt with a valid body whose collection_id is null
\* or names a stored collection answers 200, and a PUT answered 200 stores
\* under the same key a record with the body's title, content, description and
\* collection_id, the previous id and created_at, and updated_at equal to the
\* clock value read in the call; the other prompts stay as they were.
C4_ReplaceStoresPayload ==
    [][(last'.op = "update_prompt")
       => (/\ (/\ DictHas(prompts, last'.id)
               /\ PromptBaseValid(last'.data)
               /\ (last'.data.collection_id = None
                   \/ NamesCollection(collections, last'.data.collection_id)))
              => last'.status = 200
           /\ last'.status = 200
              => (/\ DictHas(prompts, last'.id)
                  /\ prompts' = DictSet(prompts, last'.id,
                        Prompt(PromptAt(prompts, last'.id).id,
                               last'.data.title, last'.data.content,
                               last'.data.description, last'.data.collection_id,
                               PromptAt(prompts, last'.id).created_at, clock'))
                  /\ clock' >= clock
                  /\ last'.ret = DictGet(prompts', last'.id)))]_vars

\* C4, its case: a PUT that omitted the description was answered 200 after
\* the clock had moved on from the prompt's creation.
C4_Witness ==
    /\ last.op = "update_prompt"
    /\ last.status = 200
    /\ last.data.description = None
    /\ Val(last.ret).description = None
    /\ Val(last.ret).updated_at > Val(last.ret).created_at

\* C5: a PATCH answered 200 leaves every one of title, content, description
\* and collection_id that the body does not supply as it was in the stored
\* record, and leaves the other prompts as they were.
C5_MergeKeepsUnsetFields ==
    [][(last'.op = "patch_prompt" /\ last'.status = 200)
       => (/\ DictHas(prompts, last'.id)
           /\ DictHas(prompts', last'.id)
           /\ \A f \in PatchFields \ last'.data.fields_set :
                 PromptAt(prompts', last'.id)[f] = PromptAt(prompts, last'.id)[f]
           /\ \A i \in 1..Len(prompts) :
                 prompts[i].key # last'.id
                 => (i <= Len(prompts') /\ prompts'[i] = prompts[i]))]_vars

\* C5, its case: a PATCH that supplied one field was answered 200 on a prompt
\* whose description is set and whose collection_id is set.
C5_Witness ==
    /\ last.op = "patch_prompt"
    /\ last.status = 200
    /\ last.data.fields_set = {"title"}
    /\ Val(last.ret).description # None
    /\ Val(last.ret).collection_id # None

\* C6: a PATCH with an empty body on a stored prompt answers 200, returns
\* the stored record and changes neither store (updated_at included).
C6_EmptyMergeIsIdentity ==
    [][(/\ last'.op = "patch_prompt"
        /\ last'.data.fields_set = {}
        /\ DictHas(prompts, last'.id))
       => (/\ last'.status = 200
           /\ last'.ret = DictGet(prompts, last'.id)
           /\ StoresUnchanged)]_vars

\* C6, its case: an empty PATCH was answered 200 on a prompt whose
\* updated_at is older than the clock.
C6_Witness ==
    /\ last.op = "patch_prompt"
    /\ last.status = 200
    /\ last.data.fields_set = {}
    /\ Val(last.ret).updated_at < clock

\* C7: a PATCH answered 200 whose supplied values all equal the stored ones
\* leaves the prompt store (updated_at included) as it was.
C7_NoChangeNoBump ==
    [][(/\ last'.op = "patch_prompt"
        /\ last'.status = 200
        /\ DictHas(prompts, last'.id)
        /\ \A f \in last'.data.fields_set :
              last'.data[f] = PromptAt(prompts, last'.id)[f])
       => UNCHANGED prompts]_vars

\* C8: on a stored prompt, a PATCH that supplies an empty or whitespace-only
\* collection_id is not answered 400 or 404, and a PATCH answered 200 stores
\* null for every field it supplied empty or whitespace-only.
C8_MergeNormalizesBlank ==
    [][(last'.op = "patch_prompt" /\ DictHas(prompts, last'.id))
       => (/\ ("collection_id" \in last'.data.fields_set
               /\ IsBlank(last'.data.collection_id))
              => last'.status \notin {400, 404}
           /\ last'.status = 200
              => \A f \in last'.data.fields_set :
                    IsBlank(last'.data[f])
                    => PromptAt(prompts', last'.id)[f] = None)]_vars

\* C8, its case: a PATCH that supplied " " as the collection_id of a prompt
\* was answered 200.
C8_Witness ==
    /\ last.op = "patch_prompt"
    /\ last.status = 200
    /\ last.data.fields_set = {"collection_id"}
    /\ last.data.collection_id = Some(Blank)

\* C8, the same for a description supplied as "" or " ".
C8_WitnessDescription ==
    /\ last.op = "patch_prompt"
    /\ last.status = 200
    /\ last.data.fields_set = {"description"}
    /\ last.data.description = Some(Empty)

\* The collection_id a PUT or PATCH body supplies, as the handler reads it
\* (for a PATCH, after check_empty_values).
SuppliedCollectionId(r) ==
    IF r.op = "patch_prompt" THEN PromptUpdateOptional(r.data).collection_id
    ELSE r.data.collection_id

\* C9: a PUT or PATCH answers an error and changes neither store when the
\* target id is not stored, and when the target is stored and the supplied
\* non-null collection_id matches no stored collection.
C9_UpdateErrorsLeaveStorage ==
    [][(last'.op \in {"update_prompt", "patch_prompt"})
       => (/\ ~DictHas(prompts, last'.id)
              => (last'.status >= 400 /\ StoresUnchanged)
           /\ (/\ DictHas(prompts, last'.id)
               /\ SuppliedCollectionId(last') # None
               /\ ~NamesCollection(collections, SuppliedCollectionId(last')))
              => (last'.status >= 400 /\ StoresUnchanged))]_vars

\* The id was handed out to a prompt (a collection) earlier in the run.
IssuedPromptId(id) == \E k \in 1..nPrompts : id = PromptId(k)

IssuedCollectionId(id) == \E k \in 1..nCollections : id = CollectionId(k)

\* C10: delete_prompt of a stored id answers 204 and removes that entry
\* only; of an id that is not stored (deleted before) it answers 404 and
\* changes neither store.  delete_collection of a stored id answers 204 and
\* removes it; of an id that was stored and deleted before it answers 404 and
\* changes neither store.
C10_DeleteIdempotent ==
    [][/\ last'.op = "delete_prompt"
          => IF DictHas(prompts, last'.id)
             THEN /\ last'.status = 204
                  /\ prompts' = DictDel(prompts, last'.id)
                  /\ ~DictHas(prompts', last'.id)
                  /\ UNCHANGED collections
             ELSE last'.status = 404 /\ StoresUnchanged
       /\ last'.op = "delete_collection"
          => IF DictHas(collections, last'.id)
             THEN last'.status = 204 /\ ~DictHas(collections', last'.id)
             ELSE IssuedCollectionId(last'.id)
                  => (last'.status = 404 /\ StoresUnchanged)]_vars

\* C10, its case: a delete_prompt of an id that was stored and deleted
\* before was answered 404, with another prompt still stored.
C10_Witness ==
    /\ last.op = "delete_prompt"
    /\ last.status = 404
    /\ IssuedPromptId(last.id)
    /\ Len(prompts) >= 1

\* C10, the same for a collection that had a prompt in it.
C10_WitnessCollection ==
    /\ last.op = "delete_collection"
    /\ last.status = 404
    /\ IssuedCollectionId(last.id)
    /\ nPrompts > Len(prompts)
    /\ Len(prompts) >= 1

\* C11: a create_prompt with a valid body whose collection_id is null or
\* names a stored collection answers 201, and a get_prompt with the returned
\* id that follows it answers 200 with the title, content, description and
\* collection_id of the body and with the returned id; a create_collection
\* with a valid body answers 201, and a get_collection with the returned id
\* that follows it answers 200 with the name and description of the body and
\* with the returned id.
C11_CreateThenGet ==
    [][/\ (/\ last'.op = "create_prompt"
           /\ PromptBaseValid(last'.data)
           /\ (last'.data.collection_id = None
               \/ NamesCollection(collections, last'.data.collection_id)))
          => (last'.status = 201 /\ last'.ret # None)
       /\ (/\ last.op = "create_prompt" /\ last.status = 201
           /\ last'.op = "get_prompt" /\ last'.id = Val(last.ret).id)
          => (/\ last'.status = 200
              /\ last'.ret # None
              /\ Val(last'.ret).id = Val(last.ret).id
              /\ Val(last'.ret).title = last.data.title
              /\ Val(last'.ret).content = last.data.content
              /\ Val(last'.ret).description = last.data.description
              /\ Val(last'.ret).collection_id = last.data.collection_id)
       /\ (last'.op = "create_collection" /\ CollectionBaseValid(last'.data))
          => (last'.status = 201 /\ last'.ret # None)
       /\ (/\ last.op = "create_collection" /\ last.status = 201
           /\ last'.op = "get_collection" /\ last'.id = Val(last.ret).id)
          => (/\ last'.status = 200
              /\ last'.ret # None
              /\ Val(last'.ret).id = Val(last.ret).id
              /\ Val(last'.ret).name = last.data.name
              /\ Val(last'.ret).description = last.data.description)]_vars

\* C11, its case: the second prompt, created with a description and in a
\* collection, was read back.
C11_Witness ==
    /\ last.op = "get_prompt"
    /\ last.status = 200
    /\ last.id = PromptId(2)
    /\ Val(last.ret).description # None
    /\ Val(last.ret).collection_id # None

\* C11, the same for a collection.
C11_WitnessCollection ==
    /\ last.op = "get_collection"
    /\ last.status = 200
    /\ Val(last.ret).name = Some(TextA)

\* The prompts a list_prompts answered 200 returned.
Listed(r) == Val(r.ret).prompts

\* C12: in the list a list_prompts returns, of any two prompts with different
\* created_at the one created later comes first.
C12_ListNewestFirst ==
    (last.op = "list_prompts" /\ last.status = 200)
    => \A i, j \in 1..Len(Listed(last)) :
          Listed(last)[i].created_at > Listed(last)[j].created_at => i < j

\* C12, its case: a list_prompts with both filters returned two prompts
\* created at different times.
C12_Witness ==
    /\ last.op = "list_prompts"
    /\ last.status = 200
    /\ Truthy(last.data.collection_id)
    /\ Truthy(last.data.search)
    /\ Len(Listed(last)) = 2
    /\ Listed(last)[1].created_at > Listed(last)[2].created_at

\* The query, lower-cased, occurs in the lower-cased title, or in the
\* lower-cased description when there is one.
MatchesQuery(p, q) ==
    \/ p.title # None /\ Contains(Lower(q), Lower(Val(p.title)))
    \/ p.description # None /\ Contains(Lower(q), Lower(Val(p.description)))

\* The values of a sequence.
Elements(list) == {list[i] : i \in 1..Len(list)}

\* C13: list_prompts(collection_id = C, search = s) with non-empty C and s
\* answers 200 with exactly the stored prompts that have collection_id = C and
\* match s, each once, and with total equal to their number.
C13_CombinedFilters ==
    (/\ last.op = "list_prompts"
     /\ Truthy(last.data.collection_id)
     /\ Truthy(last.data.search))
    => (/\ last.status = 200
        /\ last.ret # None
        /\ Elements(Listed(last))
             = {p \in Elements(DictValues(prompts)) :
                   /\ p.collection_id = last.data.collection_id
                   /\ MatchesQuery(p, Val(last.data.search))}
        /\ Len(Listed(last)) = Cardinality(Elements(Listed(last)))
        /\ Val(last.ret).total = Len(Listed(last)))

\* C14: list_prompts(search = s) without a collection filter answers 200
\* with exactly the stored prompts in which the lower-cased s occurs in the
\* lower-cased title, or in the lower-cased description when there is one (a
\* prompt that has s only in its content is not returned); with an empty s it
\* returns every stored prompt.
C14_SearchTitleOrDescription ==
    (/\ last.op = "list_prompts"
     /\ ~Truthy(last.data.collection_id)
     /\ last.data.search # None)
    => (/\ last.status = 200
        /\ last.ret # None
        /\ Elements(Listed(last))
             = IF Val(last.data.search) = Empty
               THEN Elements(DictValues(prompts))
               ELSE {p \in Elements(DictValues(prompts)) :
                        MatchesQuery(p, Val(last.data.search))}
        /\ Len(Listed(last)) = Cardinality(Elements(Listed(last))))

\* The handler answered an error and changed neither store.
Rejected == last'.status >= 400 /\ StoresUnchanged

\* C15: create_prompt with an empty or whitespace-only title, or with an
\* empty or whitespace-only content, and create_collection with an empty or
\* whitespace-only name, answer an error and store nothing.
C15_BlankRequiredRejected ==
    [][/\ (/\ last'.op = "create_prompt"
           /\ (IsBlank(last'.data.title) \/ IsBlank(last'.data.content)))
          => Rejected
       /\ (last'.op = "create_collection" /\ IsBlank(last'.data.name))
          => Rejected]_vars

\* The length of an Optional[str] that is set.
LenOf(o) == Len(Val(o))

\* C16: create_prompt answers an error and stores nothing for a title of 201
\* characters or a description of 501, and answers 201 for a title of 200
\* characters and for a description of 500 when the other fields are valid;
\* create_collection answers an error and stores nothing for a name of 101
\* characters or a description of 501, and answers 201 for a name of 100
\* characters and for a description of 500 when the other field is valid.
C16_LengthBounds ==
    [][/\ last'.op = "create_prompt"
          => LET d == last'.data IN
             /\ LenOf(d.title) = 201 => Rejected
             /\ (d.description # None /\ LenOf(d.description) = 501) => Rejected
             /\ (/\ LenOf(d.title) = 200 \/ d.title = Some(TextA)
                 /\ d.content = Some(TextA)
                 /\ d.description = None \/ LenOf(d.description) = 500)
                => (/\ last'.status = 201
                    /\ DictGet(prompts', last'.id) = last'.ret
                    /\ Val(last'.ret).title = d.title
                    /\ Val(last'.ret).description = d.description)
       /\ last'.op = "create_collection"
          => LET d == last'.data IN
             /\ LenOf(d.name) = 101 => Rejected
             /\ (d.description # None /\ LenOf(d.description) = 501) => Rejected
             /\ (/\ LenOf(d.name) = 100 \/ d.name = Some(TextA)
                 /\ d.description = None \/ LenOf(d.description) = 500)
                => (/\ last'.status = 201
                    /\ DictGet(collections', last'.id) = last'.ret
                    /\ Val(last'.ret).name = d.name
                    /\ Val(last'.ret).description = d.description)]_vars

\* C16, its case: a prompt with a title of 200 characters and a description
\* of 500 was created.
C16_Witness ==
    /\ last.op = "create_prompt"
    /\ last.status = 201
    /\ LenOf(Val(last.ret).title) = 200
    /\ Val(last.ret).description # None
    /\ LenOf(Val(last.ret).description) = 500

\* C16, the same for a collection with a name of 100 characters.
C16_WitnessCollection ==
    /\ last.op = "create_collection"
    /\ last.status = 201
    /\ LenOf(Val(last.ret).name) = 100
    /\ Val(last.ret).description # None
    /\ LenOf(Val(last.ret).description) = 500

\* C16, the rejections: a title of 201 characters was answered an error.
C16_WitnessRejected ==
    /\ last.op = "create_prompt"
    /\ last.status >= 400
    /\ LenOf(last.data.title) = 201
    /\ last.data.content = Some(TextA)
    /\ last.data.description = None

\* C17: when create_prompt, update_prompt or patch_prompt answers 200 or 201
\* and the prompt it stored has a non-null collection_id (any string, the
\* empty one included), a collection with that id is stored at that moment.
C17_StoredCollectionIdResolves ==
    [][(/\ last'.op \in {"create_prompt", "update_prompt", "patch_prompt"}
        /\ last'.status \in {200, 201}
        /\ DictHas(prompts', last'.id)
        /\ PromptAt(prompts', last'.id).collection_id # None)
       => /\ NamesCollection(collections,
                             PromptAt(prompts', last'.id).collection_id)
          /\ NamesCollection(collections',
                             PromptAt(prompts', last'.id).collection_id)]_vars

\* C18: every stored prompt has a title that is not null and not empty and
\* a content that is not null and not empty.
C18_RequiredFieldsKept ==
    \A i \in 1..Len(prompts) :
       /\ prompts[i].val.title # None
       /\ Val(prompts[i].val.title) # Empty
       /\ prompts[i].val.content # None
       /\ Val(prompts[i].val.content) # Empty

\* C19: every prompt is stored under the key equal to its id, and a prompt
\* that is stored before and after a step has the same id and created_at
\* after it; update_prompt and patch_prompt leave the keys and their order as
\* they were.
C19_IdentityImmutable ==
    [][/\ \A i \in 1..Len(prompts') : prompts'[i].val.id = prompts'[i].key
       /\ \A i \in 1..Len(prompts) :
             DictHas(prompts', prompts[i].key)
             => /\ PromptAt(prompts', prompts[i].key).id = prompts[i].val.id
                /\ PromptAt(prompts', prompts[i].key).created_at
                     = prompts[i].val.created_at
       /\ last'.op \in {"update_prompt", "patch_prompt"}
          => [i \in 1..Len(prompts') |-> prompts'[i].key]
               = [i \in 1..Len(prompts) |-> prompts[i].key]]_vars

\* C19, its case: a PUT or PATCH was answered 200 on the first of two stored
\* prompts, later than its creation.
C19_Witness ==
    /\ last.op \in {"update_prompt", "patch_prompt"}
    /\ last.status = 200
    /\ Len(prompts) = 2
    /\ last.id = prompts[1].key
    /\ prompts[1].val.updated_at > prompts[1].val.created_at

\* C20: the prompt a create_prompt returns has created_at = updated_at.
C20_CreatedEqualsUpdated ==
    (last.op = "create_prompt" /\ last.status = 201)
    => Val(last.ret).created_at = Val(last.ret).updated_at

\* The stored collection with this id (the id is a key of the store).
CollectionAt(cs, id) == Val(DictGet(cs, id))

\* C24: a PUT on a stored collection id with a valid body answers 200, stores
\* the body's name and description under the same id (id and created_at as
\* before) and returns the stored collection; a PUT on an id that is not
\* stored answers 404 and changes neither store.
C24_ReplaceCollection ==
    [][(last'.op = "update_collection")
       => IF DictHas(collections, last'.id)
          THEN CollectionBaseValid(last'.data)
               => (/\ last'.status = 200
                   /\ collections'
                        = DictSet(collections, last'.id,
                             Collection(last'.id, last'.data.name,
                                        last'.data.description,
                                        CollectionAt(collections, last'.id).created_at))
                   /\ last'.ret = DictGet(collections', last'.id)
                   /\ UNCHANGED prompts)
          ELSE last'.status = 404 /\ StoresUnchanged]_vars

\* C25: when list_prompts is given a collection_id (any string, the empty
\* one included), every prompt it returns has that collection_id; none has a
\* null collection_id.
C25_FilterKeepsOnlyCollection ==
    (/\ last.op = "list_prompts"
     /\ last.status = 200
     /\ last.data.collection_id # None)
    => \A i \in 1..Len(Listed(last)) :
          /\ Listed(last)[i].collection_id # None
          /\ Listed(last)[i].collection_id = last.data.collection_id

\* C26: list_prompts, with any search string and any collection filter,
\* answers 200 with a list of stored prompts.
C26_ListNeverFails ==
    (last.op = "list_prompts")
    => (/\ last.status = 200
        /\ last.ret # None
        /\ Elements(Listed(last)) \subseteq Elements(DictValues(prompts)))

\* The place of a prompt in the store, and the rank of its creation.
StoreIndex(ps, id) == CHOOSE i \in 1..Len(ps) : ps[i].key = id

CreationRank(id) == CHOOSE k \in 1..MaxPrompts + 1 : id = PromptId(k)

\* C28: the stored prompts are in the order of their creation, whatever
\* PUT or PATCH was applied to them, and of two prompts with the same
\* created_at that list_prompts returns, the one stored first comes first.
C28_StableTieBreak ==
    /\ \A i, j \in 1..Len(prompts) :
          i < j => CreationRank(prompts[i].key) < CreationRank(prompts[j].key)
    /\ (last.op = "list_prompts" /\ last.status = 200)
       => \A i, j \in 1..Len(Listed(last)) :
             (/\ i < j
              /\ Listed(last)[i].created_at = Listed(last)[j].created_at)
             => StoreIndex(prompts, Listed(last)[i].id)
                  < StoreIndex(prompts, Listed(last)[j].id)

\* C28, its case: list_prompts returned two prompts with the same
\* created_at, the first of which had been updated after the second was
\* created.
C28_Witness ==
    /\ last.op = "list_prompts"
    /\ last.status = 200
    /\ Len(Listed(last)) = 2
    /\ Listed(last)[1].created_at = Listed(last)[2].created_at
    /\ Listed(last)[1].updated_at > Listed(last)[2].updated_at

\* The operations on prompts.
PromptOperations ==
    {"create_prompt", "update_prompt", "patch_prompt", "delete_prompt",
     "list_prompts", "get_prompt"}

MovedOutOf(m, collection_id) ==
    /\ m.from = collection_id
    /\ DictHas(prompts, m.prompt)
    /\ ~InCollection(PromptAt(prompts, m.prompt), collection_id)

\* C30: delete_collection(C) leaves every prompt that a PUT or PATCH moved
\* out of C earlier, and that is outside C now, stored with the fields it
\* has; the prompts it removes are the ones whose collection_id is C at the
\* time of the call.
C30_MovedPromptSurvives ==
    [][(last'.op = "delete_collection")
       => (/\ \A m \in moved :
                 MovedOutOf(m, last'.id)
                 => DictGet(prompts', m.prompt) = DictGet(prompts, m.prompt)
           /\ last'.deleted
                = {prompts[i].key : i \in {j \in 1..Len(prompts) :
                                              InCollection(prompts[j].val, last'.id)}})]_vars

\* C30, its case: a collection was deleted together with a prompt in it,
\* and a prompt that had been moved from it to another stored collection is
\* still stored.
C30_Witness ==
    /\ last.op = "delete_collection"
    /\ last.status = 204
    /\ last.deleted # {}
    /\ \E m \in moved :
          /\ MovedOutOf(m, last.id)
          /\ NamesCollection(collections, PromptAt(prompts, m.prompt).collection_id)

\* C30, the same for a prompt whose collection_id was set to null.
C30_WitnessNull ==
    /\ last.op = "delete_collection"
    /\ last.status = 204
    /\ \E m \in moved :
          /\ MovedOutOf(m, last.id)
          /\ PromptAt(prompts, m.prompt).collection_id = None

\* The request of a thread has been answered.
Done(th) == th.pc = "done"

\* The request writes a prompt with this collection_id: a create_prompt, PUT
\* or PATCH that supplies it.
SetsCollection(th, c) ==
    /\ th.op \in {"create_prompt", "update_prompt", "patch_prompt"}
    /\ BodyOf(th).collection_id = Some(c)
    /\ (th.op = "patch_prompt" => "collection_id" \in th.data.fields_set)

\* Some stored prompt names collection c while c is not stored.
Orphaned(c) ==
    /\ ~DictHas(collections, c)
    /\ \E i \in 1..Len(prompts) : InCollection(prompts[i].val, c)

\* C21: once a request that sets collection_id = C and a delete_collection(C)
\* that ran at the same time are both answered, no stored prompt has
\* collection_id = C while C is not stored.
C21_NoOrphanAfterRace ==
    \A t, u \in Threads : \A c \in CollectionIds(MaxCollections) :
       (/\ Done(threads[t]) /\ SetsCollection(threads[t], c)
        /\ Done(threads[u]) /\ threads[u].op = "delete_collection"
        /\ threads[u].id = c)
       => ~Orphaned(c)

\* The title, content, description and collection_id of a prompt.
Fields(p) == [f \in PatchFields |-> p[f]]

\* What a PUT or PATCH, run alone on this stored prompt, leaves stored.
Applied(th, p) ==
    IF th.op = "update_prompt" THEN ReplacedPrompt(p, th.data, 0)
    ELSE ModelCopy(p, BodyOf(th))

\* C22: when two updates of the same stored prompt (a PUT and a PATCH, or
\* two PATCHes) that arrived on the same stored record are both answered 200
\* and the prompt is stored, its title, content, description and
\* collection_id are those that the two updates leave when one runs after
\* the other, in one of the two orders.
C22_UpdatesSerialize ==
    \A t, u \in Threads :
       (/\ t < u
        /\ Done(threads[t]) /\ Done(threads[u])
        /\ threads[t].op \in {"update_prompt", "patch_prompt"}
        /\ threads[u].op \in {"update_prompt", "patch_prompt"}
        /\ "patch_prompt" \in {threads[t].op, threads[u].op}
        /\ threads[t].id = threads[u].id
        /\ threads[t].status = 200 /\ threads[u].status = 200
        /\ threads[t].snapshot # None
        /\ threads[t].snapshot = threads[u].snapshot
        /\ DictHas(prompts, threads[t].id))
       => LET o == Val(threads[t].snapshot)
              stored == Fields(PromptAt(prompts, threads[t].id))
          IN \/ stored = Fields(Applied(threads[u], Applied(threads[t], o)))
             \/ stored = Fields(Applied(threads[t], Applied(threads[u], o)))

\* C23: a PUT or PATCH is answered with a prompt (200), with not found (404)
\* or with unknown collection (400).
C23_UpdateAnswers ==
    \A t \in Threads :
       (Done(threads[t]) /\ threads[t].op \in {"update_prompt", "patch_prompt"})
       => \/ threads[t].status = 200 /\ threads[t].ret # None
          \/ threads[t].status = 404
          \/ threads[t].status = 400

\* C27: a step of a PUT or PATCH adds no key to the prompt store: every id
\* stored after it was stored before it.
C27_UpdateNeverInserts ==
    [][\A t \in Threads :
          (/\ threads'[t] # threads[t]
           /\ threads[t].op \in {"update_prompt", "patch_prompt"})
          => DictKeys(prompts') \subseteq DictKeys(prompts)]_vars

====
